---------------------------- MODULE Spec2Model ----------------------------
(***************************************************************************)
(* A model of the profit-labelling core of catcher                         *)
(* (src/catcher/feature_extraction.py).                                    *)
(*                                                                         *)
(* Numbers.  A price is an integer number of hundredths of the currency    *)
(* unit (the precision min_price_for_profit rounds to).  A commission rate *)
(* is an exact fraction [num, den] with den > 0, and so is a profit (in    *)
(* hundredths).  The arithmetic of the code is done exactly on these       *)
(* fractions; binary floating-point rounding is not modelled.              *)
(*                                                                         *)
(* Calls.  Each behaviour is one call of one function: Init draws the      *)
(* function (op) and its arguments, the function's action runs it to its   *)
(* end and leaves what it returned or raised in ret.                       *)
(***************************************************************************)
EXTENDS Integers, Sequences, FiniteSets, TLC

VARIABLES
    pc,                 \* "ready": the call has not run; "done": it has ended
    op,                 \* the function called
    buy_price,          \* profit / min_price_for_profit: buy_price
    sell_price,         \* profit: sell_price
    broker_commission,  \* broker_commission, a fraction [num, den]
    threshold,          \* profit: threshold; calc_cross_profit: profit_threshold
    as_bool,            \* profit: as_bool
    data,               \* calc_cross_profit: the caller's table
    policy,             \* calc_cross_profit: policy
    data_cross,         \* calc_cross_profit: the local cross-joined table
    solver,             \* min_price_for_profit: the result of scipy's root
    column,             \* lookahead_window: column, a series of prices
    window_size,        \* lookahead_window: window_size
    aggfunc,            \* lookahead_window: aggfunc
    window_sizes,       \* make_buy_features: window_sizes, a Python value
    shift_windows,      \* make_buy_features: shift_windows
    buyers,             \* the Buyer objects: their attributes
    models,             \* the classifier objects the Buyers' model refers to
    run,                \* learn_buy_recommendation: the last call and its steps
    file,               \* json_write_results: the file named by `file`
    calls,              \* json_write_results: the records passed so far
    date,               \* get_stock_prices: date
    periods,            \* get_stock_prices: periods
    batches,            \* get_stock_prices: batches
    interval,           \* get_stock_prices: interval
    batch_n,            \* get_stock_prices: the loop variable
    clock,              \* what datetime.datetime.now() returns, in hours
    sent,               \* the candle requests made and their responses
    ret                 \* what the call returned or raised

\* The arguments no function assigns to.
arguments == <<op, buy_price, sell_price, broker_commission, threshold, as_bool,
               policy, column, window_size, aggfunc, window_sizes,
               shift_windows>>

\* The state outside feature_extraction.py.
buyer_vars == <<buyers, models, run>>

log_vars == <<file, calls>>

api_vars == <<date, periods, batches, interval, batch_n, clock, sent>>

objects == <<buyer_vars, log_vars, api_vars>>

vars == <<pc, arguments, data, data_cross, solver, objects, ret>>

-----------------------------------------------------------------------------
(* Bounds of the model.                                                    *)

MaxPrice == 3

MaxRows == 3

MaxBuyPrice == 12

MaxWindow == 3

MaxFeatureRows == 5

MaxFeatureWindow == 3

MaxDownloadRows == 2

MaxRuns == 2

MaxCalls == 3

MaxBatches == 2

MaxTicks == 2

MaxDayRows == 3

-----------------------------------------------------------------------------
(* Values.                                                                 *)

Frac(n, d) == [num |-> n, den |-> d]

\* A whole number of hundredths as a fraction.
Whole(p) == Frac(p, 1)

\* Python's None, and the values Python treats as false in `not policy`.
NoneValue == "<None>"

Falsy == {NoneValue, ""}

Pending == [kind |-> "pending"]

Return(v) == [kind |-> "return", value |-> v]

Raise(e) == [kind |-> "raise", error |-> e]

\* An argument a call does not take.
Unused == "-"

\* No Buyer is made.
NoBuyers == buyers = Unused /\ models = Unused /\ run = Unused

\* No results file is written.
NoLog == file = Unused /\ calls = Unused

\* No price is downloaded.
NoApi ==
    /\ date = Unused
    /\ periods = Unused
    /\ batches = Unused
    /\ interval = Unused
    /\ batch_n = Unused
    /\ clock = Unused
    /\ sent = Unused

\* The call is one of a function of feature_extraction.py.
NoObjects == NoBuyers /\ NoLog /\ NoApi

\* The call is not one of make_buy_features.
NoFeatureArguments == window_sizes = Unused /\ shift_windows = Unused

-----------------------------------------------------------------------------
(* profit (feature_extraction.py:13-33).                                   *)

\* Variant of ThresholdAssert: the assertion compiled away (python -O).
ThresholdAssertOff(thr) == TRUE

\* line 31: assert threshold >= 0
ThresholdAssert(thr) == thr >= 0

\* Variant of NetProfit: the commission charged on the difference of the
\* prices instead of on their sum.
NetProfitOnDifference(buy, sell, c) ==
    Frac((sell.num * buy.den - buy.num * sell.den) * c.den
            - (sell.num * buy.den - buy.num * sell.den) * c.num,
         sell.den * buy.den * c.den)

\* line 32: sell_price - buy_price - (sell_price + buy_price) * broker_commission,
\* on prices that are fractions of a hundredth (the root-finder of
\* min_price_for_profit evaluates profit between two hundredths).
NetProfit(buy, sell, c) ==
    Frac((sell.num * buy.den - buy.num * sell.den) * c.den
            - (sell.num * buy.den + buy.num * sell.den) * c.num,
         sell.den * buy.den * c.den)

\* Variant of ReachesThreshold: a strict comparison.
ReachesThresholdStrict(net, thr) == net.num > thr * net.den

\* line 33: result >= threshold
ReachesThreshold(net, thr) == net.num >= thr * net.den

\* line 33: result >= threshold if as_bool else result
ProfitResult(net, thr, asb) == IF asb THEN ReachesThreshold(net, thr) ELSE net

\* profit over arrays of prices (fractions) of equal length (numpy
\* broadcasting); the assertion is on the scalar threshold and is made before
\* any arithmetic.
profit_array(buys, sells, c, thr, asb) ==
    IF ~ThresholdAssert(thr)
    THEN Raise("AssertionError")
    ELSE Return([k \in 1..Len(buys) |->
                    ProfitResult(NetProfit(buys[k], sells[k], c), thr, asb)])

\* profit of one buy price and one sell price.
profit(buy, sell, c, thr, asb) ==
    LET r == profit_array(<<buy>>, <<sell>>, c, thr, asb)
    IN  IF r.kind = "raise" THEN r ELSE Return(r.value[1])

-----------------------------------------------------------------------------
(* calc_cross_profit (feature_extraction.py:134-193).                      *)
(* A table is [index_type, index_name, rows]; a row of the caller's table  *)
(* is [datetime, open]: its index value (a timestamp, in minutes) and its  *)
(* price column.  Further columns of the caller's table would be carried   *)
(* through unchanged like open and are left out.                           *)

dt_str == "datetime"

price_col == "open"

\* line 165: data.reset_index(); the index becomes the column named by the
\* index (which line 162 has set to 'datetime').
reset_index(rows) == rows

\* line 168: df.join(df[[price_col, dt_str]], how='cross', rsuffix='_sell'):
\* every left row with every right row, left-major.
cross_join(df) ==
    LET n == Len(df)
    IN  [k \in 1..(n * n) |->
            LET l == df[((k - 1) \div n) + 1]
                r == df[((k - 1) % n) + 1]
            IN  l @@ [open_sell |-> r.open, datetime_sell |-> r.datetime]]

\* Variant of future: a sale at the buy timestamp itself counted as future.
future_or_same(row) == row.datetime_sell >= row.datetime

\* line 171: data_cross.datetime_sell > data_cross.datetime
future(row) == row.datetime_sell > row.datetime

\* lines 173-178: the policy branches (an if/elif chain without an else).
apply_policy(cross, pol) ==
    IF pol \in {"lookahead", "la"} \/ pol \in Falsy
    THEN SelectSeq(cross, LAMBDA row: future(row))
    ELSE IF pol \in {"lookbehind", "lb"}
    THEN SelectSeq(cross, LAMBDA row: ~future(row))
    ELSE IF pol \in {"full", "lookaround", "lar"}
    THEN [k \in 1..Len(cross) |->
            cross[k] @@ ("future" :> (IF future(cross[k]) THEN 1 ELSE 0))]
    ELSE cross

\* line 190: the columns whose name ends with '_sell'
sell_columns == {"open_sell", "datetime_sell"}

\* Variant of labelled: the table indexed by the sell timestamp.
labelled_by_sell(cross, flags) ==
    [k \in 1..Len(cross) |->
        [col \in (DOMAIN cross[k]) \ sell_columns |->
            IF col = "datetime" THEN cross[k].datetime_sell ELSE cross[k][col]]
            @@ ("profit" :> (IF flags[k] THEN 1 ELSE 0))]

\* lines 187-193: set_index('datetime'), drop the sell columns, assign profit
\* (astype('int8') of the booleans, line 185).
labelled(cross, flags) ==
    [k \in 1..Len(cross) |->
        [col \in (DOMAIN cross[k]) \ sell_columns |-> cross[k][col]]
            @@ ("profit" :> (IF flags[k] THEN 1 ELSE 0))]

\* line 155: assert isinstance(data.index, pd.DatetimeIndex)
IndexAssertOff(table) == TRUE

IndexAssert(table) == table.index_type = "DatetimeIndex"

\* lines 161-162: the caller's table gets its index renamed in place.
rename_index(table) ==
    IF table.index_name # dt_str THEN [table EXCEPT !.index_name = dt_str]
    ELSE table

\* lines 181-182: data_cross[col].values
column_values(cross, col) == [k \in 1..Len(cross) |-> Whole(cross[k][col])]

\* lines 155-193: what calc_cross_profit returns or raises.
calc_cross_profit(table, pol, c, thr) ==
    IF ~IndexAssert(table) THEN Raise("AssertionError")
    ELSE LET cross == apply_policy(cross_join(reset_index(table.rows)), pol)
             cross_profit == profit_array(column_values(cross, "open"),
                                          column_values(cross, "open_sell"),
                                          c, thr, TRUE)
         IN  IF cross_profit.kind = "raise" THEN cross_profit
             ELSE Return(labelled(cross, cross_profit.value))

-----------------------------------------------------------------------------
(* The inputs of the calls.                                                *)

Prices == 0..MaxPrice

Commissions ==
    {Frac(0, 1), Frac(3, 1000), Frac(1, 5), Frac(1, 2), Frac(1, 1), Frac(3, 2)}

Thresholds == {-1, 0, 1}

Policies == {"lookahead", "la", "lookbehind", "lb", "full", "lookaround", "lar",
             NoneValue, "", "lookahed"}

Orderings(n) == {f \in [1..n -> 1..n] : \A i, j \in 1..n : f[i] = f[j] => i = j}

TablePrices == {1, MaxPrice}

TableCommissions == {Frac(0, 1), Frac(3, 1000), Frac(1, 2)}

\* Rows with unique timestamps in any order.
RowsOfLength(n) ==
    {[k \in 1..n |-> [datetime |-> ts[k], open |-> pr[k]]] :
        ts \in Orderings(n), pr \in [1..n -> TablePrices]}

\* Five prices at one-minute spacing (timestamps 0..4), in hundredths.
ExampleRows ==
    [k \in 1..5 |-> [datetime |-> k - 1,
                     open |-> <<10000, 10100, 9900, 10500, 10200>>[k]]]

ExampleCommission == Frac(3, 1000)

Indexes ==
    {[index_type |-> "DatetimeIndex", index_name |-> "datetime"],
     [index_type |-> "DatetimeIndex", index_name |-> "time"],
     [index_type |-> "RangeIndex", index_name |-> NoneValue]}

Table(ix, rows) ==
    [index_type |-> ix.index_type, index_name |-> ix.index_name, rows |-> rows]

Tables ==
    {Table(ix, rows) : ix \in Indexes,
                       rows \in UNION {RowsOfLength(n) : n \in 0..MaxRows}}

-----------------------------------------------------------------------------
(* Specification of profit and calc_cross_profit.                          *)

InitProfitCall ==
    /\ op = "profit"
    /\ buy_price \in Prices
    /\ sell_price \in Prices
    /\ broker_commission \in Commissions
    /\ threshold \in Thresholds
    /\ as_bool \in BOOLEAN
    /\ data = Unused
    /\ policy = Unused
    /\ column = Unused
    /\ window_size = Unused
    /\ aggfunc = Unused
    /\ NoFeatureArguments

InitCrossCall ==
    /\ op = "calc_cross_profit"
    /\ buy_price = Unused
    /\ sell_price = Unused
    /\ as_bool = Unused
    /\ column = Unused
    /\ window_size = Unused
    /\ aggfunc = Unused
    /\ NoFeatureArguments
    /\ \/ /\ data \in Tables
          /\ broker_commission \in TableCommissions
       \/ /\ data = Table([index_type |-> "DatetimeIndex", index_name |-> "datetime"],
                          ExampleRows)
          /\ broker_commission = ExampleCommission
    /\ policy \in Policies
    /\ threshold \in Thresholds

InitLabel ==
    /\ pc = "ready"
    /\ ret = Pending
    /\ NoObjects
    /\ data_cross = <<>>
    /\ solver = Unused
    /\ (InitProfitCall \/ InitCrossCall)

\* profit(buy_price, sell_price, broker_commission, threshold, as_bool)
Profit ==
    /\ pc = "ready"
    /\ op = "profit"
    /\ ret' = profit(Whole(buy_price), Whole(sell_price), broker_commission,
                     threshold, as_bool)
    /\ pc' = "done"
    /\ UNCHANGED <<arguments, data, data_cross, solver, objects>>

\* calc_cross_profit(data, 'open', policy, broker_commission, threshold)
CalcCrossProfit ==
    /\ pc = "ready"
    /\ op = "calc_cross_profit"
    /\ pc' = "done"
    /\ IF ~IndexAssert(data)
       THEN /\ ret' = Raise("AssertionError")
            /\ UNCHANGED <<data, data_cross>>
       ELSE /\ data' = rename_index(data)
            /\ data_cross' =
                  apply_policy(cross_join(reset_index(data.rows)), policy)
            /\ ret' = calc_cross_profit(data, policy, broker_commission,
                                        threshold)
    /\ UNCHANGED <<arguments, solver, objects>>

NextLabel == Profit \/ CalcCrossProfit

SpecLabel == InitLabel /\ [][NextLabel]_vars

-----------------------------------------------------------------------------
(* min_price_for_profit (feature_extraction.py:36-51).                     *)

\* lines 46-49: the function handed to root: the profit of selling at `sell`
\* what was bought at buy_price, with threshold=0 and as_bool left False.
residual(buy, c, sell) == profit(Whole(buy), sell, c, 0, FALSE).value

\* A fraction with its denominator made positive.
Normal(x) == IF x.den < 0 THEN Frac(-x.num, -x.den) ELSE x

\* Where root may stand when it has given up, started at x0.
StalledIterates(x0) == {x0 - 1, x0, x0 + 1}

\* line 46-50: scipy.optimize.root(f, x0=buy_price), the hybrid Powell method
\* on a function of one unknown: the slope is taken by a forward difference
\* at x0 and a Newton step is made with it.  The result is the set of
\* OptimizeResults root may return, [x, success]: root raises nothing when it
\* does not converge, it reports success = False with its last iterate in x.
root(buy, c, x0) ==
    LET f0 == residual(buy, c, Whole(x0))
        f1 == residual(buy, c, Whole(x0 + 1))
        slope == f1.num - f0.num
        x1 == Normal(Frac(x0 * slope - f0.num, slope))
    IN  IF f0.num = 0
        THEN {[x |-> Whole(x0), success |-> TRUE]}
        ELSE IF slope = 0
        THEN {[x |-> Whole(it), success |-> FALSE] : it \in StalledIterates(x0)}
        ELSE {[x |-> x1, success |-> residual(buy, c, x1).num = 0]}

\* Variant of np_round: rounding up to the next hundredth.
np_ceil(x) ==
    IF x.num % x.den = 0 THEN x.num \div x.den ELSE (x.num \div x.den) + 1

\* line 51: np.round(x, decimals=2): to the nearest hundredth, a half to the
\* even neighbour.  x is a fraction of a hundredth with den > 0.
np_round(x) ==
    LET q == x.num \div x.den
        r == x.num % x.den
    IN  IF 2 * r < x.den THEN q
        ELSE IF 2 * r > x.den THEN q + 1
        ELSE IF q % 2 = 0 THEN q ELSE q + 1

\* lines 46-51: the rounded ['x'][0] of whatever root returned; its
\* 'success' is not read.
min_price_for_profit(sol) == Return(np_round(sol.x))

BuyPrices == (1..MaxBuyPrice) \cup {10000}

InitSolver ==
    /\ pc = "ready"
    /\ ret = Pending
    /\ NoObjects
    /\ op = "min_price_for_profit"
    /\ buy_price \in BuyPrices
    /\ broker_commission \in Commissions
    /\ solver = Pending
    /\ sell_price = Unused
    /\ threshold = Unused
    /\ as_bool = Unused
    /\ data = Unused
    /\ policy = Unused
    /\ data_cross = Unused
    /\ column = Unused
    /\ window_size = Unused
    /\ aggfunc = Unused
    /\ NoFeatureArguments

\* min_price_for_profit(buy_price, broker_commission)
MinPriceForProfit ==
    /\ pc = "ready"
    /\ op = "min_price_for_profit"
    /\ \E sol \in root(buy_price, broker_commission, buy_price) :
          /\ solver' = sol
          /\ ret' = min_price_for_profit(sol)
    /\ pc' = "done"
    /\ UNCHANGED <<arguments, data, data_cross, objects>>

NextSolver == MinPriceForProfit

SpecSolver == InitSolver /\ [][NextSolver]_vars

-----------------------------------------------------------------------------
(* lookahead_window and profit_chance_lookahead                            *)
(* (feature_extraction.py:7-10, 54-64).  A series is a sequence of         *)
(* [datetime, value] in index order.  lookahead_window is modelled for     *)
(* shift = 0, its default and the only value the repository calls it with, *)
(* where .shift(-shift) changes nothing, and for a series without missing  *)
(* values.                                                                 *)

RECURSIVE SumValues(_)
\* the aggregation named 'sum'
SumValues(window) ==
    IF window = <<>> THEN 0
    ELSE window[1].value + SumValues(Tail(window))

\* lines 57-64: the share of the other observations of the window at which
\* selling what was bought at the window's last observation is a profit;
\* 0 for a window of one observation.
profit_chance_lookahead(window, c) ==
    LET now == window[Len(window)]
        later == SubSeq(window, 1, Len(window) - 1)
        flags == profit_array([k \in 1..Len(later) |-> Whole(now.value)],
                              [k \in 1..Len(later) |-> Whole(later[k].value)],
                              c, 0, TRUE).value
    IN  IF Len(later) > 0
        THEN Frac(Cardinality({k \in 1..Len(later) : flags[k]}), Len(later))
        ELSE Frac(0, 1)

\* .agg(aggfunc, **agg_kws) on one window
aggregate(window, func, c) ==
    IF func = "sum" THEN SumValues(window)
    ELSE profit_chance_lookahead(window, c)

\* column[::-1]
reversed(series) ==
    [k \in 1..Len(series) |-> series[Len(series) + 1 - k]]

\* .rolling(window_size, min_periods=1): at each position the window of the
\* up to window_size observations ending there; one observation is enough
\* for the window to be aggregated.
rolling(series, size) ==
    [k \in 1..Len(series) |->
        SubSeq(series, IF k - size + 1 > 1 THEN k - size + 1 ELSE 1, k)]

\* .rolling(...).agg(...): the aggregate of each window at the window's last
\* index value.
rolling_agg(series, size, func, c) ==
    LET windows == rolling(series, size)
    IN  [k \in 1..Len(series) |->
            [datetime |-> series[k].datetime,
             value |-> aggregate(windows[k], func, c)]]

\* Variant of lookahead_window: the rolling aggregate taken without
\* reversing the series, so that each window trails its timestamp.
trailing_window(col, func, size, c) == rolling_agg(col, size, func, c)

\* line 10
lookahead_window(col, func, size, c) ==
    reversed(rolling_agg(reversed(col), size, func, c))

\* Series of n prices at the timestamps 1..n.
SeriesOfLength(n) ==
    {[k \in 1..n |-> [datetime |-> k, value |-> pr[k]]] :
        pr \in [1..n -> TablePrices]}

InitWindow ==
    /\ pc = "ready"
    /\ ret = Pending
    /\ NoObjects
    /\ op = "lookahead_window"
    /\ column \in UNION {SeriesOfLength(n) : n \in 0..MaxRows}
    /\ window_size \in 1..MaxWindow
    /\ \/ /\ aggfunc = "sum"
          /\ broker_commission = Unused
       \/ /\ aggfunc = "profit_chance_lookahead"
          /\ broker_commission \in TableCommissions
    /\ buy_price = Unused
    /\ sell_price = Unused
    /\ threshold = Unused
    /\ as_bool = Unused
    /\ data = Unused
    /\ policy = Unused
    /\ data_cross = Unused
    /\ solver = Unused
    /\ NoFeatureArguments

\* lookahead_window(column, aggfunc, window_size, shift=0,
\*                  broker_commission=...)
LookaheadWindow ==
    /\ pc = "ready"
    /\ op = "lookahead_window"
    /\ ret' = Return(lookahead_window(column, aggfunc, window_size,
                                      broker_commission))
    /\ pc' = "done"
    /\ UNCHANGED <<arguments, data, data_cross, solver, objects>>

NextWindow == LookaheadWindow

SpecWindow == InitWindow /\ [][NextWindow]_vars

-----------------------------------------------------------------------------
(* make_buy_features (feature_extraction.py:85-131).                       *)
(* The table made has, beside the caller's columns, avg_deviation_exp and  *)
(* one avg_deviation_<window> per requested window; the latter are the     *)
(* field avg_deviation, a function of the window.  A cell of a computed    *)
(* column is a fraction or NaN.  window_sizes is a Python value: None, an  *)
(* int, or a list whose items are ints or strings.                         *)

NaN == [nan |-> TRUE]

IsNaN(x) == "nan" \in DOMAIN x

PyNone == [type |-> "NoneType"]

PyInt(n) == [type |-> "int", value |-> n]

PyStr(x) == [type |-> "str", text |-> x]

PyList(items) == [type |-> "list", items |-> items]

\* line 105: `if window_sizes:`; None, 0 and an empty list are false.
Truthy(v) ==
    IF v.type = "NoneType" THEN FALSE
    ELSE IF v.type = "int" THEN v.value # 0
    ELSE Len(v.items) > 0

\* lines 106-109: iter(window_sizes) raises TypeError for an int.
Iterable(v) == v.type = "list"

RECURSIVE SumTo(_, _)
\* the sum of the first k prices
SumTo(prices, k) == IF k = 0 THEN 0 ELSE prices[k] + SumTo(prices, k - 1)

\* line 102: features[price_column].expanding().mean() at row k
expanding_mean(prices, k) == Frac(SumTo(prices, k), k)

\* lines 103, 118: (price - mean) / mean; missing where the mean is, or where
\* it is 0 / 0.
deviation(price, mean) ==
    IF IsNaN(mean) THEN NaN
    ELSE IF mean.num = 0 THEN NaN
    ELSE Frac(price * mean.den - mean.num, mean.num)

\* Variant of shift: the values stay at their rows.
no_shift(cells, by) == cells

\* line 113: .shift(by): the value of row k - by at row k, missing where
\* there is no such row.
shift(cells, by) ==
    [k \in 1..Len(cells) |->
        IF (k - by) \in 1..Len(cells) THEN cells[k - by] ELSE NaN]

\* line 114: win_type='bohman': the weights of scipy's bohman window, up to a
\* common factor, for the window lengths 1 to 4 (both ends of a bohman
\* window of length >= 2 are 0; the two inner weights of length 4 are equal).
bohman(w) ==
    CASE w = 1 -> <<1>>
      [] w = 2 -> <<0, 0>>
      [] w = 3 -> <<0, 1, 0>>
      [] w = 4 -> <<0, 1, 1, 0>>

RECURSIVE Dot(_, _)
Dot(weights, cells) ==
    IF weights = <<>> THEN 0
    ELSE weights[1] * cells[1].num + Dot(Tail(weights), Tail(cells))

RECURSIVE Total(_)
Total(weights) ==
    IF weights = <<>> THEN 0 ELSE weights[1] + Total(Tail(weights))

\* lines 114-115: .rolling(window, win_type='bohman').mean() at row k: the
\* weighted mean of the window rows ending at k; missing when fewer than
\* `window` rows (min_periods is the window length) or a missing value are in
\* it, or when the weights sum to 0.
rolling_mean(cells, w, k) ==
    IF k < w THEN NaN
    ELSE LET win == SubSeq(cells, k - w + 1, k)
         IN  IF \E i \in 1..w : IsNaN(win[i]) THEN NaN
             ELSE IF Total(bohman(w)) = 0 THEN NaN
             ELSE Frac(Dot(bohman(w), win), Total(bohman(w)))

\* lines 112-115: the rolling average of one window size at row k
rolling_avg(prices, w, shifted, k) ==
    LET cells == [i \in 1..Len(prices) |-> Whole(prices[i])]
        by == -(w \div 2) * (IF shifted THEN 1 ELSE 0)
    IN  rolling_mean(shift(cells, by), w, k)

\* line 129: a row dropna drops
has_missing(row) ==
    \/ IsNaN(row.avg_deviation_exp)
    \/ \E w \in DOMAIN row.avg_deviation : IsNaN(row.avg_deviation[w])

\* lines 99-126: the copy of the table with its computed columns, the
\* rolling_avg columns dropped again (line 126).
feature_rows(rows, windows, shifted) ==
    LET prices == [k \in 1..Len(rows) |-> rows[k].open]
    IN  [k \in 1..Len(rows) |->
            [datetime |-> rows[k].datetime,
             open |-> rows[k].open,
             avg_deviation_exp |->
                deviation(prices[k], expanding_mean(prices, k)),
             avg_deviation |->
                [w \in windows |->
                    deviation(prices[k], rolling_avg(prices, w, shifted, k))]]]

\* lines 99-131
make_buy_features(table, sizes, shifted) ==
    IF ~Truthy(sizes)
    THEN Return([table EXCEPT !.rows =
                    SelectSeq(feature_rows(table.rows, {}, shifted),
                              LAMBDA row: ~has_missing(row))])
    ELSE IF ~Iterable(sizes)
    THEN Raise("TypeError")
    ELSE IF \E i \in 1..Len(sizes.items) : sizes.items[i].type # "int"
    THEN Raise("TypeError")
    ELSE LET windows == {sizes.items[i].value : i \in 1..Len(sizes.items)}
         IN  Return([table EXCEPT !.rows =
                        SelectSeq(feature_rows(table.rows, windows, shifted),
                                  LAMBDA row: ~has_missing(row))])

FeatureWindows == 1..MaxFeatureWindow

WindowLists ==
    {PyList(<<>>)}
        \cup {PyList(<<PyInt(w)>>) : w \in FeatureWindows}
        \cup {PyList(<<PyInt(w), PyInt(v)>>) : w, v \in FeatureWindows}

WindowSizes ==
    {PyNone, PyInt(0), PyInt(MaxFeatureWindow)}
        \cup WindowLists
        \cup {PyList(<<PyStr("a")>>), PyList(<<PyInt(1), PyStr("a")>>)}

InitFeatureCall ==
    /\ op = "make_buy_features"
    /\ \E n \in 0..MaxFeatureRows :
          data \in {Table(ix, [k \in 1..n |-> [datetime |-> k, open |-> pr[k]]]) :
                        ix \in Indexes, pr \in [1..n -> TablePrices]}
    /\ window_sizes \in WindowSizes
    /\ shift_windows \in BOOLEAN
    /\ buy_price = Unused
    /\ sell_price = Unused
    /\ broker_commission = Unused
    /\ threshold = Unused
    /\ as_bool = Unused
    /\ policy = Unused
    /\ column = Unused
    /\ window_size = Unused
    /\ aggfunc = Unused

InitTables ==
    /\ pc = "ready"
    /\ ret = Pending
    /\ NoObjects
    /\ data_cross = <<>>
    /\ solver = Unused
    /\ (InitFeatureCall \/ InitCrossCall)

\* make_buy_features(data, 'open', window_sizes, shift_windows)
MakeBuyFeatures ==
    /\ pc = "ready"
    /\ op = "make_buy_features"
    /\ ret' = make_buy_features(data, window_sizes, shift_windows)
    /\ pc' = "done"
    /\ UNCHANGED <<arguments, data, data_cross, solver, objects>>

NextTables == MakeBuyFeatures \/ CalcCrossProfit

SpecTables == InitTables /\ [][NextTables]_vars

-----------------------------------------------------------------------------
(* Buyer (buyer.py).                                                       *)
(* A behaviour is a sequence of calls of learn_buy_recommendation on two   *)
(* Buyer objects.  What the API downloads and whether cross_validate and   *)
(* the classifier succeed are inputs of each call.                         *)

BuyerIds == {1, 2}

\* line 141: model=LogisticRegression(solver='admm'): the one object made when
\* the def statement of __init__ is executed.
DefaultModel == "default"

\* A classifier the caller makes for one Buyer and passes as model.
OwnModel(b) == IF b = 1 THEN "model_1" ELSE "model_2"

ModelRefs == {DefaultModel} \cup {OwnModel(b) : b \in BuyerIds}

\* An attribute of an object, set or not yet set.
NoAttribute == [exists |-> FALSE]

Attribute(v) == [exists |-> TRUE, value |-> v]

\* lines 141-145: the Buyer __init__ makes; train_data is set by line 61 only.
Buyer(pol, model, c) ==
    [policy |-> pol, model |-> model, broker_commission |-> c,
     train_data |-> NoAttribute]

\* A classifier before fit, and after fit(X, y), which sets its coefficients
\* from X and y.
Unfitted == [fitted |-> FALSE]

fit(X, y) == [fitted |-> TRUE, X |-> X, y |-> y]

\* predict_proba(x)[0, 1] of a fitted classifier
predict_proba(model, x) == [model |-> model, x |-> x]

\* line 73: np.mean(cross_validate(...)['test_score'])
Score == "mean test_score"

\* .drop(columns=...)
drop(rows, columns) ==
    [k \in 1..Len(rows) |->
        [col \in (DOMAIN rows[k]) \ columns |-> rows[k][col]]]

price_columns == {"open", "close", "high", "low", "volume"}

\* Variant of DataAssert: no assert statement.
DataAssertOff(rows) == TRUE

\* line 37: assert data.shape[0] > 0
DataAssert(rows) == Len(rows) > 0

\* Variant of rocauc: a failure of cross_validate is not caught.
rocauc_uncaught(cross_val, cv) ==
    IF cross_val /\ cv # "ok" THEN Raise(cv) ELSE Return(NoneValue)

\* lines 70-78: the score when cross_val is asked for and cross_validate
\* succeeds; None when it raises anything (bare except) or is not asked for.
rocauc(cross_val, cv) ==
    IF cross_val
    THEN IF cv = "ok" THEN Return(Score) ELSE Return(NoneValue)
    ELSE Return(NoneValue)

DescriptiveError == "ValueError('profit_threshold argument may be too large.')"

\* Variant of reraise: no error of the classifier is replaced.
reraise_none(error) == error

\* lines 83-84: except ValueError: raise ValueError(...); another error is
\* not caught.
reraise(error) == IF error = "ValueError" THEN DescriptiveError ELSE error

\* line 82: self.model.fit(X, y).predict_proba(X_current.values)[0, 1]: the
\* classifier after the statement, and the value or the error of it.
fit_predict(model, X, y, x, clf) ==
    IF clf.at = "fit"
    THEN [model |-> model, pred |-> Raise(clf.error)]
    ELSE IF clf.at = "predict_proba"
    THEN [model |-> fit(X, y), pred |-> Raise(clf.error)]
    ELSE [model |-> fit(X, y), pred |-> Return(predict_proba(fit(X, y), x))]

\* feature_extraction.py:36: broker_commission=0.003, the default of
\* min_price_for_profit
DefaultCommission == Frac(3, 1000)

RECURSIVE MaxOf(_)
\* prices.max()
MaxOf(prices) ==
    IF Len(prices) = 1 THEN prices[1]
    ELSE IF prices[1] >= MaxOf(Tail(prices)) THEN prices[1]
    ELSE MaxOf(Tail(prices))

NoChart == [drawn |-> FALSE]

\* lines 108-124: the charts make_chart may draw, one for each result root
\* may give: the green zone from min_price_for_profit(current_price), called
\* without a commission, up to prices.max(), and the line of the current
\* price.
make_chart(self, prices, current_price) ==
    {[drawn |-> TRUE,
      green_min |-> min_price_for_profit(sol).value,
      green_max |-> MaxOf(prices),
      current_price |-> current_price] :
        sol \in root(current_price, DefaultCommission, current_price)}

\* The call stopped by an error after `steps`, self.train_data and the
\* classifier being as given.
Aborted(error, steps, train_data, model) ==
    [ret |-> Raise(error), steps |-> steps, train_data |-> train_data,
     model |-> model, charts |-> {NoChart}]

\* lines 36-102: learn_buy_recommendation of the Buyer `self`, whose
\* classifier is `model`: what it returns or raises, the calls it has made
\* (steps), and self.train_data and the classifier after it.
learn_buy_recommendation(self, model, downloaded, profit_threshold, cross_val, cv, clf) ==
    LET s1 == <<"get_stock_prices">>
        s2 == Append(s1, "make_buy_features")
        s3 == Append(s2, "calc_cross_profit")
        s4 == IF cross_val THEN Append(s3, "cross_validate") ELSE s3
        s5 == Append(s4, "fit")
        s6 == Append(s5, "make_chart")
        rows == downloaded.rows
    IN  IF ~DataAssert(rows)
        THEN Aborted("AssertionError", s1, self.train_data, model)
        ELSE IF Len(rows) = 0   \* line 42: data.close[-1]
        THEN Aborted("IndexError", s1, self.train_data, model)
        ELSE
        LET current == rows[Len(rows)].close
            train == make_buy_features(downloaded, PyNone, FALSE).value
        IN  IF Len(train.rows) = 0   \* line 49: train.iloc[[-1], :]
            THEN Aborted("IndexError", s2, self.train_data, model)
            ELSE
            LET last == drop(<<train.rows[Len(train.rows)]>>, price_columns)[1]
                X_current ==
                    IF self.policy \in {"full", "lookaround", "lar"}
                    THEN last @@ [future |-> 1]
                    ELSE last
                labelled_cross ==
                    calc_cross_profit(train, self.policy,
                                      self.broker_commission, profit_threshold)
            IN  IF labelled_cross.kind = "raise"
                THEN [ret |-> labelled_cross, steps |-> s3,
                      train_data |-> self.train_data, model |-> model,
                      charts |-> {NoChart}]
                ELSE
                LET train_cross == drop(labelled_cross.value, price_columns)
                    X == drop(train_cross, {"profit"})
                    y == [k \in 1..Len(train_cross) |-> train_cross[k].profit]
                    auc == rocauc(cross_val, cv)
                    fitted == fit_predict(model, X, y, X_current, clf)
                IN  IF auc.kind = "raise"
                    THEN Aborted(auc.error, s4, Attribute(train_cross), model)
                    ELSE IF fitted.pred.kind = "raise"
                    THEN Aborted(reraise(fitted.pred.error), s5,
                                 Attribute(train_cross), fitted.model)
                    ELSE [ret |-> Return([ticker |-> "ticker",
                                          time |-> X_current.datetime,
                                          interval |-> "1min",
                                          periods |-> NoneValue,
                                          batches |-> 1,
                                          price |-> current,
                                          profit_threshold |-> profit_threshold,
                                          buy |-> fitted.pred.value,
                                          policy |-> self.policy,
                                          roc_auc |-> auc.value]),
                          steps |-> s6,
                          train_data |-> Attribute(train_cross),
                          model |-> fitted.model,
                          charts |-> make_chart(
                                        self,
                                        [k \in 1..Len(rows) |-> rows[k].open],
                                        current)]

\* lines 128-139: what draw_feature_importances of a Buyer shows: the
\* columns of self.train_data against the coefficients of self.model.
draw_feature_importances(self, model) ==
    IF ~model.fitted THEN Raise("ValueError")
    ELSE IF ~self.train_data.exists THEN Raise("AttributeError")
    ELSE Return([x |-> self.train_data.value, y |-> model])

\* The first Buyer has the default policy, the second looks ahead.
BuyerPolicy(b) == IF b = 1 THEN "lookaround" ELSE "lookahead"

\* The first Buyer has the default commission, the second one of 0.2.
BuyerCommission(b) == IF b = 1 THEN Frac(3, 1000) ELSE Frac(1, 5)

\* What the API downloads: no candle, or candles at the timestamps
\* 1..MaxDownloadRows whose prices fall to 100.00, in hundredths; the index
\* is named 'time' (tinkoff.py:24).
Downloads ==
    {Table([index_type |-> "DatetimeIndex", index_name |-> "time"],
           [k \in 1..n |-> [datetime |-> k,
                            open |-> 10000 * (n - k + 1),
                            close |-> 10000 * (n - k + 1)]]) :
        n \in {0, MaxDownloadRows}}

ProfitThresholds == {0, 1}

CrossValidations == {"ok", "ValueError"}

ClassifierOutcomes ==
    {[at |-> "nowhere"],
     [at |-> "fit", error |-> "ValueError"],
     [at |-> "predict_proba", error |-> "ValueError"],
     [at |-> "predict_proba", error |-> "IndexError"]}

NoRun == [count |-> 0]

InitBuyers ==
    /\ pc = "ready"
    /\ ret = Pending
    /\ op = "learn_buy_recommendation"
    /\ buy_price = Unused
    /\ sell_price = Unused
    /\ broker_commission = Unused
    /\ threshold = Unused
    /\ as_bool = Unused
    /\ policy = Unused
    /\ column = Unused
    /\ window_size = Unused
    /\ aggfunc = Unused
    /\ NoFeatureArguments
    /\ data = Unused
    /\ data_cross = <<>>
    /\ solver = Unused
    /\ \E m \in [BuyerIds -> BOOLEAN] :
          buyers = [b \in BuyerIds |->
                      Buyer(BuyerPolicy(b),
                            IF m[b] THEN DefaultModel ELSE OwnModel(b),
                            BuyerCommission(b))]
    /\ models = [r \in ModelRefs |-> Unfitted]
    /\ run = NoRun
    /\ NoLog
    /\ NoApi

\* buyers[b].learn_buy_recommendation(profit_threshold, cross_val=cross_val)
LearnBuyRecommendation ==
    /\ pc = "ready"
    /\ op = "learn_buy_recommendation"
    /\ run.count < MaxRuns
    /\ \E b \in BuyerIds, downloaded \in Downloads,
          profit_threshold \in ProfitThresholds, cross_val \in BOOLEAN,
          cv \in CrossValidations, clf \in ClassifierOutcomes :
          /\ (~cross_val => cv = "ok")
          /\ \E call \in {learn_buy_recommendation(
                                buyers[b], models[buyers[b].model], downloaded,
                                profit_threshold, cross_val, cv, clf)} :
              /\ ret' = call.ret
              /\ buyers' = [buyers EXCEPT ![b].train_data = call.train_data]
              /\ models' = [models EXCEPT ![buyers[b].model] = call.model]
              /\ \E chart \in call.charts :
                    run' = [count |-> run.count + 1, buyer |-> b,
                            downloaded |-> downloaded,
                            profit_threshold |-> profit_threshold,
                            cross_val |-> cross_val, cv |-> cv, clf |-> clf,
                            steps |-> call.steps, chart |-> chart]
    /\ UNCHANGED <<pc, arguments, data, data_cross, solver, log_vars, api_vars>>

NextBuyers == LearnBuyRecommendation

SpecBuyers == InitBuyers /\ [][NextBuyers]_vars

-----------------------------------------------------------------------------
(* json_write_results (logging.py:5-16).                                   *)
(* The file is absent or a text, a sequence of characters (a key of a      *)
(* record counts as one).  A record passed is a dict {"buy": n}; json.dump *)
(* and json.load are the writer and the parser of that text.               *)

Digits == <<"0", "1", "2", "3", "4", "5", "6", "7", "8", "9">>

IsDigit(c) == \E i \in 1..10 : Digits[i] = c

DigitValue(c) == (CHOOSE i \in 1..10 : Digits[i] = c) - 1

RECURSIVE dump_number(_)
\* the decimal digits of a natural number
dump_number(n) ==
    IF n < 10 THEN <<Digits[n + 1]>>
    ELSE Append(dump_number(n \div 10), Digits[(n % 10) + 1])

dump_record(d) == <<"{", "\"buy\"", ":", " ">> \o dump_number(d.buy) \o <<"}">>

RECURSIVE dump_items(_)
dump_items(records) ==
    IF records = <<>> THEN <<>>
    ELSE IF Len(records) = 1 THEN dump_record(records[1])
    ELSE dump_record(records[1]) \o <<",", " ">> \o dump_items(Tail(records))

\* json.dump of a list of records: the text written
dump(records) == <<"[">> \o dump_items(records) \o <<"]">>

RECURSIVE load_number(_, _, _)
\* the number whose digits start at text[i], n being the value of the digits
\* before i: its value and the position after it
load_number(text, i, n) ==
    IF i <= Len(text) /\ IsDigit(text[i])
    THEN load_number(text, i + 1, 10 * n + DigitValue(text[i]))
    ELSE [value |-> n, next |-> i]

\* the record that starts at text[i], and the position after it; next = 0
\* when there is none
load_record(text, i) ==
    IF /\ i + 5 <= Len(text)
       /\ SubSeq(text, i, i + 3) = <<"{", "\"buy\"", ":", " ">>
       /\ IsDigit(text[i + 4])
    THEN LET number == load_number(text, i + 4, 0)
         IN  IF number.next <= Len(text) /\ text[number.next] = "}"
             THEN [value |-> [buy |-> number.value], next |-> number.next + 1]
             ELSE [value |-> <<>>, next |-> 0]
    ELSE [value |-> <<>>, next |-> 0]

RECURSIVE load_items(_, _, _)
\* the rest of an array of which `records` are read and text[i] follows a
\* record
load_items(text, i, records) ==
    IF i = Len(text) /\ text[i] = "]" THEN Return(records)
    ELSE IF i + 1 <= Len(text) /\ SubSeq(text, i, i + 1) = <<",", " ">>
    THEN LET record == load_record(text, i + 2)
         IN  IF record.next = 0 THEN Raise("JSONDecodeError")
             ELSE load_items(text, record.next, Append(records, record.value))
    ELSE Raise("JSONDecodeError")

\* json.load of the whole text: the list of records, or JSONDecodeError when
\* the text is not one JSON array followed by nothing
load(text) ==
    IF Len(text) < 2 \/ text[1] # "[" THEN Raise("JSONDecodeError")
    ELSE IF text = <<"[", "]">> THEN Return(<<>>)
    ELSE LET record == load_record(text, 2)
         IN  IF record.next = 0 THEN Raise("JSONDecodeError")
             ELSE load_items(text, record.next, <<record.value>>)

\* Variant of write: the text written where json.load left the position, at
\* the end of the file.
write_at_end(text, new) == text \o new

\* lines 11-12: f.seek(0) and the write of `new` in mode 'r+': the old text
\* is overwritten from its start and what of it lies past the new text stays.
write(text, new) == new \o SubSeq(text, Len(new) + 1, Len(text))

Absent == [exists |-> FALSE]

Present(text) == [exists |-> TRUE, text |-> text]

\* lines 7-16: the file after json_write_results(d, file), and what the call
\* returns or raises.  What load returns is a list, so the assert of line 10
\* holds.
json_write_results(d, f) ==
    IF ~f.exists   \* open(file, 'r+') raises FileNotFoundError
    THEN [file |-> Present(dump(<<d>>)), ret |-> Return(NoneValue)]
    ELSE LET origin == load(f.text)
         IN  IF origin.kind = "raise" THEN [file |-> f, ret |-> origin]
             ELSE [file |-> Present(write(f.text, dump(Append(origin.value, d)))),
                   ret |-> Return(NoneValue)]

\* The records passed: their texts differ in length.
Records == {[buy |-> n] : n \in {0, 7, 42, 100, 2026}}

\* The arguments and locals of the functions of feature_extraction.py are
\* not used.
NoFunctionCall ==
    /\ buy_price = Unused
    /\ sell_price = Unused
    /\ broker_commission = Unused
    /\ threshold = Unused
    /\ as_bool = Unused
    /\ policy = Unused
    /\ column = Unused
    /\ window_size = Unused
    /\ aggfunc = Unused
    /\ NoFeatureArguments
    /\ data = Unused
    /\ data_cross = <<>>
    /\ solver = Unused

InitLog ==
    /\ pc = "ready"
    /\ ret = Pending
    /\ op = "json_write_results"
    /\ NoFunctionCall
    /\ NoBuyers
    /\ NoApi
    /\ file = Absent
    /\ calls = <<>>

\* json_write_results(d, file)
JsonWriteResults ==
    /\ pc = "ready"
    /\ op = "json_write_results"
    /\ Len(calls) < MaxCalls
    /\ \E d \in Records :
          \E call \in {json_write_results(d, file)} :
              /\ file' = call.file
              /\ ret' = call.ret
              /\ calls' = Append(calls, d)
    /\ UNCHANGED <<pc, arguments, data, data_cross, solver, buyer_vars, api_vars>>

NextLog == JsonWriteResults

SpecLog == InitLog /\ [][NextLog]_vars

-----------------------------------------------------------------------------
(* TinkoffAPI.get_stock_prices (tinkoff.py:85-132).                        *)
(* Times are whole hours.  A behaviour is one call: the call enters the    *)
(* function, then each step is one pass of the loop over the batches; the  *)
(* clock may advance before the call and between two passes, and the       *)
(* service chooses its response to each request.                           *)

Hour == 1

Day == 24 * Hour

\* lines 46-53: the index of TIME_INTERVALS, its columns timedelta and
\* max_length (the intervals 'hour' and 'day' of it)
Intervals == {"hour", "day"}

timedelta(i) == IF i = "hour" THEN Hour ELSE Day

max_length(i) == IF i = "hour" THEN 7 * Day ELSE 365 * Day

\* line 83: assert interval in TinkoffAPI.TIME_INTERVALS.index
check_time_interval(i) == i \in Intervals

\* A date string, of the day numbered `day`.
IsoDate(day) == [type |-> "str", day |-> day]

\* datetime.datetime.fromisoformat(time): midnight of the day
fromisoformat(time) == time.day * Day

\* lines 27-33
make_datetime(time, now) ==
    IF time.type = "NoneType" THEN now ELSE fromisoformat(time)

\* lines 36-37: the time as the text sent, with the offset appended
strftime(time) == [hours |-> time, offset |-> "+03:00"]

\* lines 102-103
batch_length(i, p) ==
    IF Truthy(p) THEN timedelta(i) * p.value ELSE max_length(i)

\* lines 108-111: the anchor of one pass of the loop
anchor(d, now) ==
    IF d.type = "NoneType" THEN make_datetime(PyNone, now)
    ELSE make_datetime(d, now) + Day

\* lines 114-127: the parameters of the request of the pass batch_n
request_params(d, now, length, n, i) ==
    [figi |-> "figi",
     from |-> strftime(anchor(d, now) - length * n),
     to |-> strftime(anchor(d, now) - length * (n - 1)),
     interval |-> i]

AssertionError(message) == [type |-> "AssertionError", args |-> message]

\* Variant of check_response: the status code is not looked at.
check_response_unchecked(r) == Return(r.json)

\* lines 7-10
check_response(r) ==
    IF r.status_code = 200 THEN Return(r.json)
    ELSE Raise(AssertionError(r.json.payload.message))

\* line 130: check_response(r)['payload']['candles']
payload_candles(json) ==
    IF "candles" \in DOMAIN json.payload THEN Return(json.payload.candles)
    ELSE Raise([type |-> "KeyError", args |-> "candles"])

\* lines 13-24: no change to an empty table; else the time moved by three
\* hours into the index 'datetime', the columns renamed.
preproc_pipeline(df) ==
    IF Len(df) = 0 THEN df
    ELSE [k \in 1..Len(df) |->
            [datetime |-> df[k].time + 3 * Hour,
             open |-> df[k].o, close |-> df[k].c]]

RECURSIVE concat_rows(_)
concat_rows(frames) ==
    IF frames = <<>> THEN <<>>
    ELSE frames[1] \o concat_rows(Tail(frames))

\* line 132: pd.concat(data); it raises ValueError for an empty list.
concat(frames) ==
    IF frames = <<>>
    THEN Raise([type |-> "ValueError", args |-> "No objects to concatenate"])
    ELSE Return(concat_rows(frames))

Candle(t) == [time |-> t, o |-> 1, c |-> 2]

\* The candles the service may have of a window: none, the first, or the
\* first and the last.
CandleLists(from, to, i) ==
    {<<>>, <<Candle(from)>>}
        \cup (IF to - timedelta(i) > from
              THEN {<<Candle(from), Candle(to - timedelta(i))>>}
              ELSE {})

\* The responses of the service to a request: the candles with status 200,
\* or an error status with a message in the payload.
Responses(params) ==
    {[status_code |-> 200, json |-> [payload |-> [candles |-> c]]] :
        c \in CandleLists(params.from.hours, params.to.hours, params.interval)}
        \cup {[status_code |-> 401,
               json |-> [payload |-> [message |-> "Unauthorized"]]],
              [status_code |-> 500,
               json |-> [payload |-> [message |-> "Internal error"]]]}

\* The clock when the behaviour starts; the day of the date passed is before.
FirstNow == 2001 * Day + 13 * Hour

Dates == {PyNone, IsoDate(2000)}

Periods == {PyNone, PyInt(0), PyInt(1), PyInt(2)}

InitApi ==
    /\ pc = "ready"
    /\ ret = Pending
    /\ op = "get_stock_prices"
    /\ buy_price = Unused
    /\ sell_price = Unused
    /\ broker_commission = Unused
    /\ threshold = Unused
    /\ as_bool = Unused
    /\ policy = Unused
    /\ column = Unused
    /\ window_size = Unused
    /\ aggfunc = Unused
    /\ NoFeatureArguments
    /\ data = <<>>
    /\ data_cross = <<>>
    /\ solver = Unused
    /\ NoBuyers
    /\ NoLog
    /\ date \in Dates
    /\ periods \in Periods
    /\ batches \in 0..MaxBatches
    /\ interval \in Intervals \cup {"1sec"}
    /\ batch_n = 0
    /\ clock = FirstNow
    /\ sent = <<>>

\* lines 97-106: the call up to the loop; with no batch the loop is skipped
\* and line 132 is reached.
GetStockPrices ==
    /\ pc = "ready"
    /\ op = "get_stock_prices"
    /\ IF ~check_time_interval(interval)
       THEN /\ ret' = Raise(AssertionError("Wrong time interval"))
            /\ pc' = "done"
            /\ UNCHANGED batch_n
       ELSE IF batches < 1
       THEN /\ ret' = concat(data)
            /\ pc' = "done"
            /\ UNCHANGED batch_n
       ELSE /\ pc' = "loop"
            /\ batch_n' = batches
            /\ UNCHANGED ret
    /\ UNCHANGED <<arguments, data, data_cross, solver, buyer_vars, log_vars,
                   date, periods, batches, interval, clock, sent>>

\* lines 106-132: one pass of the loop, and the return after the last
Batch ==
    /\ pc = "loop"
    /\ op = "get_stock_prices"
    /\ LET params == request_params(date, clock,
                                    batch_length(interval, periods), batch_n,
                                    interval)
       IN  \E r \in Responses(params) :
              /\ sent' = Append(sent, [params |-> params, response |-> r])
              /\ IF check_response(r).kind = "raise"
                 THEN /\ ret' = check_response(r)
                      /\ pc' = "done"
                      /\ UNCHANGED <<data, batch_n>>
                 ELSE IF payload_candles(check_response(r).value).kind = "raise"
                 THEN /\ ret' = payload_candles(check_response(r).value)
                      /\ pc' = "done"
                      /\ UNCHANGED <<data, batch_n>>
                 ELSE /\ data' = Append(data, preproc_pipeline(
                                    payload_candles(check_response(r).value).value))
                      /\ batch_n' = batch_n - 1
                      /\ IF batch_n = 1
                         THEN ret' = concat(data') /\ pc' = "done"
                         ELSE UNCHANGED <<ret, pc>>
    /\ UNCHANGED <<arguments, data_cross, solver, buyer_vars, log_vars,
                   date, periods, batches, interval, clock>>

\* The clock advances before the call or between two passes of the loop.
Tick ==
    /\ pc \in {"ready", "loop"}
    /\ op = "get_stock_prices"
    /\ clock < FirstNow + MaxTicks
    /\ clock' = clock + Hour
    /\ UNCHANGED <<pc, arguments, data, data_cross, solver, buyer_vars,
                   log_vars, date, periods, batches, interval, batch_n, sent,
                   ret>>

NextApi == GetStockPrices \/ Batch \/ Tick

SpecApi == InitApi /\ [][NextApi]_vars

-----------------------------------------------------------------------------
(* last_day (stocks/timeseries.py:5-8) and make_train_data                 *)
(* (stocks/feature_extraction.py:72-75).                                   *)
(* The data is a sequence of rows in the order of time; the index of a row *)
(* is a timestamp [year, month, day, minute], its column the average price.*)

\* timeseries.py:8: (data.index.day == last_date.day)
\*                  & (data.index.year == last_date.year)
same_day(ix, last_date) == ix.day = last_date.day /\ ix.year = last_date.year

\* timeseries.py:5-8; data.index[-1] raises IndexError on empty data.
last_day(rows) ==
    IF Len(rows) = 0 THEN Raise("IndexError")
    ELSE Return(SelectSeq(rows,
                          LAMBDA row: same_day(row.index,
                                               rows[Len(rows)].index)))

\* timeseries.py:25-27: the countdown to the last row
future_periods(rows) == [k \in 1..Len(rows) |-> Len(rows) - k]

\* stocks/feature_extraction.py:68: rolling(rolling_periods,
\* min_periods=1).mean() of the column average at row k
rolling_average(rows, rolling_periods, k) ==
    LET first == IF k - rolling_periods + 1 > 1 THEN k - rolling_periods + 1
                 ELSE 1
        prices == [i \in 1..(k - first + 1) |-> rows[first + i - 1].average]
    IN  Frac(SumTo(prices, Len(prices)), Len(prices))

\* stocks/feature_extraction.py:60-69, future=True, rolling_periods=60; the
\* column rolling_avg_60 is the field rolling_avg.
generate_features(rows) ==
    [k \in 1..Len(rows) |->
        [index |-> rows[k].index,
         average |-> rows[k].average,
         future |-> future_periods(rows)[k],
         rolling_avg |-> rolling_average(rows, 60, k)]]

\* stocks/feature_extraction.py:8-13 with as_bool=True: result > 0, the
\* commission a fraction
stocks_profit(price_bought, current_price, c) ==
    (current_price - price_bought) * c.den
        - (current_price + price_bought) * c.num > 0

\* stocks/feature_extraction.py:16-29 with single_day=False: the share of
\* the later rows of the window that sell the first at a profit, 0 when
\* there is none
profit_chance(window, c) ==
    LET later == Len(window) - 1
        gains == {i \in 2..Len(window) :
                    stocks_profit(window[1].average, window[i].average, c)}
    IN  IF later > 0 THEN Frac(Cardinality(gains), later) ELSE Whole(0)

\* stocks/feature_extraction.py:32-57: make_probs, lookahead_agg with
\* aggfunc=profit_chance, window_size=60, broker_commission=0.0005
make_probs(rows) ==
    [k \in 1..Len(rows) |->
        [index |-> rows[k].index,
         chance |-> profit_chance(
                        SubSeq(rows, k,
                               IF k + 59 < Len(rows) THEN k + 59 ELSE Len(rows)),
                        Frac(5, 10000))]]

\* stocks/feature_extraction.py:72-75 with n_last=0, where .iloc[-0:] is
\* every row
make_train_data(rows) ==
    LET actual_data == last_day(rows)
    IN  IF actual_data.kind = "raise" THEN actual_data
        ELSE Return([X |-> generate_features(actual_data.value),
                     y |-> make_probs(actual_data.value)])

CalendarDates ==
    [year : {2020, 2021}, month : {1, 2}, day : {1, 2}]

DateOrder(d) == (d.year * 12 + d.month) * 31 + d.day

\* The data of n rows: dates that do not decrease, the minute of a row its
\* position.
DayData(n) ==
    {[k \in 1..n |->
        [index |-> [year |-> ds[k].year, month |-> ds[k].month,
                    day |-> ds[k].day, minute |-> k],
         average |-> pr[k]]] :
        ds \in {d \in [1..n -> CalendarDates] :
                  \A i \in 1..n : \A j \in i..n :
                      DateOrder(d[i]) <= DateOrder(d[j])},
        pr \in [1..n -> TablePrices]}

InitDay ==
    /\ pc = "ready"
    /\ ret = Pending
    /\ op \in {"last_day", "make_train_data"}
    /\ buy_price = Unused
    /\ sell_price = Unused
    /\ broker_commission = Unused
    /\ threshold = Unused
    /\ as_bool = Unused
    /\ policy = Unused
    /\ column = Unused
    /\ window_size = Unused
    /\ aggfunc = Unused
    /\ NoFeatureArguments
    /\ \E n \in 0..MaxDayRows : data \in DayData(n)
    /\ data_cross = <<>>
    /\ solver = Unused
    /\ NoObjects

\* last_day(data)
LastDay ==
    /\ pc = "ready"
    /\ op = "last_day"
    /\ ret' = last_day(data)
    /\ pc' = "done"
    /\ UNCHANGED <<arguments, data, data_cross, solver, objects>>

\* make_train_data(data)
MakeTrainData ==
    /\ pc = "ready"
    /\ op = "make_train_data"
    /\ ret' = make_train_data(data)
    /\ pc' = "done"
    /\ UNCHANGED <<arguments, data, data_cross, solver, objects>>

NextDay == LastDay \/ MakeTrainData

SpecDay == InitDay /\ [][NextDay]_vars

-----------------------------------------------------------------------------
(* Properties of calc_cross_profit's pairs.                                *)

Lookahead == {"lookahead", "la"}

Lookbehind == {"lookbehind", "lb"}

Full == {"full", "lookaround", "lar"}

\* calc_cross_profit has run past its index assertion, so data_cross holds
\* the pairs it retained.
CrossJoined ==
    op = "calc_cross_profit" /\ pc = "done" /\ data.index_type = "DatetimeIndex"

CrossReturned == CrossJoined /\ ret.kind = "return"

\* How many retained pairs buy at row b and sell at row s of the table.
PairCount(b, s) ==
    Cardinality({k \in 1..Len(data_cross) :
                    /\ data_cross[k].datetime = b.datetime
                    /\ data_cross[k].open = b.open
                    /\ data_cross[k].datetime_sell = s.datetime
                    /\ data_cross[k].open_sell = s.open})

TableRows == {data.rows[i] : i \in 1..Len(data.rows)}

\* Every retained pair is a pair of rows of the table.
PairsAreOfTable ==
    \A k \in 1..Len(data_cross) :
        \E b, s \in TableRows :
            /\ data_cross[k].datetime = b.datetime
            /\ data_cross[k].open = b.open
            /\ data_cross[k].datetime_sell = s.datetime
            /\ data_cross[k].open_sell = s.open

\* C1: with unique timestamps the retained (buy, sell) pairs are, under
\* lookahead/la, exactly the pairs with sell timestamp > buy timestamp; under
\* lookbehind/lb, exactly the pairs with sell timestamp <= buy timestamp (the
\* self-pairs included); under full/lookaround/lar, each of the n*n ordered
\* pairs once, with future = 1 if sell timestamp > buy timestamp, else 0, in
\* the retained pairs and in the returned table.
C1_PolicyPairs ==
    CrossJoined =>
        /\ PairsAreOfTable
        /\ policy \in Lookahead =>
              /\ \A b, s \in TableRows :
                    PairCount(b, s) = IF s.datetime > b.datetime THEN 1 ELSE 0
              /\ \A k \in 1..Len(data_cross) :
                    /\ data_cross[k].datetime_sell > data_cross[k].datetime
                    /\ data_cross[k].datetime_sell # data_cross[k].datetime
        /\ policy \in Lookbehind =>
              /\ \A b, s \in TableRows :
                    PairCount(b, s) = IF s.datetime <= b.datetime THEN 1 ELSE 0
              /\ \A k \in 1..Len(data_cross) :
                    data_cross[k].datetime_sell <= data_cross[k].datetime
        /\ policy \in Full =>
              /\ Len(data_cross) = Len(data.rows) * Len(data.rows)
              /\ \A b, s \in TableRows : PairCount(b, s) = 1
              /\ \A k \in 1..Len(data_cross) :
                    /\ "future" \in DOMAIN data_cross[k]
                    /\ data_cross[k].future =
                          IF data_cross[k].datetime_sell > data_cross[k].datetime
                          THEN 1 ELSE 0
              /\ ret.kind = "return" =>
                    /\ Len(ret.value) = Len(data_cross)
                    /\ \A k \in 1..Len(ret.value) :
                          /\ "future" \in DOMAIN ret.value[k]
                          /\ ret.value[k].future = data_cross[k].future
                          /\ ret.value[k].datetime = data_cross[k].datetime

\* C1's case: a table of MaxRows rows, not in time order, labelled under the
\* policy full, with pairs of both directions.
C1_Witness ==
    /\ CrossReturned
    /\ policy = "full"
    /\ Len(data.rows) = MaxRows
    /\ data.rows[1].datetime > data.rows[2].datetime
    /\ \E k \in 1..Len(data_cross) : data_cross[k].future = 1
    /\ \E k \in 1..Len(data_cross) :
          data_cross[k].future = 0
          /\ data_cross[k].datetime_sell < data_cross[k].datetime

RecognizedPolicies == Lookahead \cup Lookbehind \cup Full

\* C2: under any policy value other than the recognized aliases (an
\* unrecognized non-empty string, None, an empty value) only the pairs whose
\* sell timestamp is later than the buy timestamp are retained, and no
\* future column is emitted.
C2_UnrecognizedIsLookahead ==
    (CrossReturned /\ policy \notin RecognizedPolicies) =>
        /\ Len(ret.value) = Len(data_cross)
        /\ \A k \in 1..Len(data_cross) :
              /\ data_cross[k].datetime_sell > data_cross[k].datetime
              /\ "future" \notin DOMAIN data_cross[k]
              /\ "future" \notin DOMAIN ret.value[k]
        /\ \A b, s \in TableRows :
              PairCount(b, s) = IF s.datetime > b.datetime THEN 1 ELSE 0

IncreasingTimestamps ==
    \A i, j \in 1..Len(data.rows) :
        i < j => data.rows[i].datetime < data.rows[j].datetime

\* The rows of the returned table indexed by the timestamp of table row i.
RowsIndexedBy(i) ==
    {k \in 1..Len(ret.value) : ret.value[k].datetime = data.rows[i].datetime}

ExampleCall ==
    /\ CrossReturned
    /\ data.rows = ExampleRows
    /\ policy \in Lookahead
    /\ broker_commission = ExampleCommission
    /\ threshold = 0

\* C3: for n rows with increasing timestamps under lookahead the returned
\* table has n*(n-1)/2 rows, one per retained pair and indexed by the pair's
\* buy timestamp (n-k rows for the k-th earliest timestamp), each row's profit
\* being the 0/1 predicate of its own pair; for the prices
\* [100, 101, 99, 105, 102], commission 0.003 and threshold 0 that is 10 rows,
\* (buy 99, sell 105) flagged 1 and (buy 105, sell 102) flagged 0.
C3_LookaheadRows ==
    /\ (CrossReturned /\ policy \in Lookahead /\ IncreasingTimestamps) =>
          LET n == Len(data.rows)
          IN  /\ 2 * Len(ret.value) = n * (n - 1)
              /\ Len(ret.value) = Len(data_cross)
              /\ \A i \in 1..n : Cardinality(RowsIndexedBy(i)) = n - i
              /\ \A k \in 1..Len(ret.value) :
                    /\ ret.value[k].datetime = data_cross[k].datetime
                    /\ ret.value[k].open = data_cross[k].open
                    /\ data_cross[k].datetime_sell > data_cross[k].datetime
                    /\ ret.value[k].profit \in {0, 1}
                    /\ ret.value[k].profit = 1 <=>
                          (data_cross[k].open_sell - data_cross[k].open)
                                * broker_commission.den
                            - (data_cross[k].open_sell + data_cross[k].open)
                                * broker_commission.num
                          >= threshold * broker_commission.den
    /\ ExampleCall =>
          /\ Len(ret.value) = 10
          /\ \A k \in 1..10 :
                /\ (data_cross[k].open = 9900 /\ data_cross[k].open_sell = 10500)
                      => ret.value[k].profit = 1
                /\ (data_cross[k].open = 10500 /\ data_cross[k].open_sell = 10200)
                      => ret.value[k].profit = 0

\* C3's case: the five-price example has been labelled, and its two named
\* pairs are among the rows.
C3_Witness ==
    /\ ExampleCall
    /\ \E k \in 1..Len(ret.value) :
          /\ data_cross[k].datetime = 2 /\ data_cross[k].datetime_sell = 3
          /\ ret.value[k].datetime = 2 /\ ret.value[k].profit = 1
    /\ \E k \in 1..Len(ret.value) :
          /\ data_cross[k].datetime = 3 /\ data_cross[k].datetime_sell = 4
          /\ ret.value[k].datetime = 3 /\ ret.value[k].profit = 0

-----------------------------------------------------------------------------
(* Properties of profit.                                                   *)

ProfitDone == op = "profit" /\ pc = "done"

\* sell - buy - (sell + buy) * commission >= thr, on exact fractions.
NetAtLeast(buy, sell, c, thr) ==
    (sell - buy) * c.den - (sell + buy) * c.num >= thr * c.den

\* C4: with threshold >= 0, profit(..., as_bool=True) is true exactly when
\* sell - buy - (sell + buy) * commission >= threshold, which is
\* profit(..., as_bool=False) >= threshold; the comparison is not strict, so
\* a net profit of exactly zero is profitable at threshold 0, in profit and
\* in the profit column of calc_cross_profit.
C4_BoolIsNetAtLeastThreshold ==
    /\ (ProfitDone /\ threshold >= 0 /\ as_bool = TRUE) =>
          /\ ret.kind = "return"
          /\ ret.value \in BOOLEAN
          /\ ret.value <=>
                NetAtLeast(buy_price, sell_price, broker_commission, threshold)
          /\ LET net == profit(Whole(buy_price), Whole(sell_price),
                               broker_commission, threshold, FALSE).value
             IN  /\ ret.value <=> (net.num >= threshold * net.den)
                 /\ (net.num = 0 /\ threshold = 0) => ret.value
    /\ (CrossReturned /\ threshold >= 0) =>
          \A k \in 1..Len(ret.value) :
              /\ ret.value[k].profit = 1 <=>
                    NetAtLeast(data_cross[k].open, data_cross[k].open_sell,
                               broker_commission, threshold)
              /\ ret.value[k].profit = 0 <=>
                    ~NetAtLeast(data_cross[k].open, data_cross[k].open_sell,
                                broker_commission, threshold)

\* C4's case: a pair with a commission above zero whose net profit is exactly
\* zero, at threshold 0, answered true.
C4_Witness ==
    /\ ProfitDone /\ as_bool = TRUE /\ threshold = 0
    /\ broker_commission.num > 0
    /\ broker_commission.num < broker_commission.den
    /\ buy_price > 0
    /\ sell_price > buy_price
    /\ (sell_price - buy_price) * broker_commission.den
          = (sell_price + buy_price) * broker_commission.num
    /\ ret = Return(TRUE)

\* C5: with a threshold < 0, profit fails and returns no value, as_bool true
\* or false, and so does calc_cross_profit with a negative profit_threshold.
C5_NegativeThresholdFails ==
    (pc = "done" /\ op \in {"profit", "calc_cross_profit"} /\ threshold < 0) =>
        /\ ret.kind = "raise"
        /\ ret.error = "AssertionError"
        /\ "value" \notin DOMAIN ret

\* C5's case: calc_cross_profit on a time-indexed table with rows, stopped by
\* the threshold assertion of profit.
C5_Witness ==
    /\ CrossJoined /\ threshold < 0
    /\ Len(data_cross) > 0
    /\ ret = Raise("AssertionError")

LessThan(x, y) == x.num * y.den < y.num * x.den

ProfitOf(buy, sell) ==
    profit(Whole(buy), Whole(sell), broker_commission, 0, FALSE).value

NetReturned == ProfitDone /\ as_bool = FALSE /\ ret.kind = "return"

\* C6 as stated: for every commission rate >= 0, rates of 1 and above
\* included, profit does not fall when the sell price rises and falls when
\* the buy price rises.
C6_MonotoneForEveryRate ==
    NetReturned =>
        /\ \A s \in Prices :
              s > sell_price => ~LessThan(ProfitOf(buy_price, s), ret.value)
        /\ \A b \in Prices :
              b > buy_price => LessThan(ProfitOf(b, sell_price), ret.value)

\* C6, amended: for every commission rate 0 <= c <= 1 profit does not fall
\* when the sell price rises (it rises for c < 1, and is constant for c = 1);
\* for a rate above 1 it falls when the sell price rises; for every rate
\* c >= 0 it falls when the buy price rises.
C6_MonotoneUpToRateOne ==
    NetReturned =>
        LET c == broker_commission
        IN  /\ \A s \in Prices :
                  s > sell_price =>
                      /\ c.num < c.den =>
                            LessThan(ret.value, ProfitOf(buy_price, s))
                      /\ c.num = c.den =>
                            /\ ~LessThan(ret.value, ProfitOf(buy_price, s))
                            /\ ~LessThan(ProfitOf(buy_price, s), ret.value)
                      /\ c.num > c.den =>
                            LessThan(ProfitOf(buy_price, s), ret.value)
            /\ \A b \in Prices :
                  b > buy_price => LessThan(ProfitOf(b, sell_price), ret.value)

\* C6's case: a commission rate between 0 and 1, with a higher sell price and
\* a higher buy price to compare with.
C6_Witness ==
    /\ NetReturned
    /\ broker_commission.num > 0
    /\ broker_commission.num < broker_commission.den
    /\ sell_price < MaxPrice
    /\ buy_price < MaxPrice
    /\ LessThan(ret.value, ProfitOf(buy_price, sell_price + 1))

-----------------------------------------------------------------------------
(* Properties of min_price_for_profit.                                     *)

SolverDone == op = "min_price_for_profit" /\ pc = "done"

Abs(x) == IF x < 0 THEN -x ELSE x

\* C7: for a buy price p > 0 and a commission 0 <= c < 1 the price returned is
\* p * (1 + c) / (1 - c) rounded to the hundredth: it is a whole number of
\* hundredths at most half a hundredth from the closed form, and the profit of
\* selling at it is within 0.01 (one hundredth) of zero; for p = 100 and
\* c = 0.003 it is 100.60.
C7_ClosedFormRounded ==
    (SolverDone /\ buy_price > 0
        /\ broker_commission.num < broker_commission.den) =>
        LET c == broker_commission
        IN  /\ ret.kind = "return"
            /\ solver.success
            /\ 2 * Abs(ret.value * (c.den - c.num) - buy_price * (c.den + c.num))
                  <= c.den - c.num
            /\ Abs((ret.value - buy_price) * c.den
                    - (ret.value + buy_price) * c.num) <= c.den
            /\ (buy_price = 10000 /\ c = Frac(3, 1000)) => ret.value = 10060

\* C7's case: the breakeven price of 100.00 at commission 0.003, found
\* between two hundredths and rounded to 100.60.
C7_Witness ==
    /\ SolverDone
    /\ buy_price = 10000
    /\ broker_commission = Frac(3, 1000)
    /\ solver.success
    /\ solver.x.den > 1
    /\ ret = Return(10060)

\* C8: the price min_price_for_profit returns is a price at which selling is
\* not a loss: profit(buy, min_price_for_profit(buy, c), c, threshold=0,
\* as_bool=True) is true for every buy price > 0.
C8_MinPriceIsNotLoss ==
    (SolverDone /\ buy_price > 0 /\ solver.success
        /\ broker_commission.num < broker_commission.den) =>
        profit(Whole(buy_price), Whole(ret.value), broker_commission, 0, TRUE)
            = Return(TRUE)

\* C9: when the root-finder does not converge, min_price_for_profit fails
\* with an error and returns no price.
C9_NoConvergenceFails ==
    (SolverDone /\ ~solver.success) =>
        /\ ret.kind = "raise"
        /\ "value" \notin DOMAIN ret

-----------------------------------------------------------------------------
(* Properties of lookahead_window.                                         *)

WindowDone == op = "lookahead_window" /\ pc = "done"

\* The positions of the observations from i forward that window_size covers.
ForwardWindow(i) ==
    {j \in i..Len(column) : j <= i + window_size - 1}

RECURSIVE SumAt(_)
SumAt(positions) ==
    IF positions = {} THEN 0
    ELSE LET j == CHOOSE j \in positions : TRUE
         IN  column[j].value + SumAt(positions \ {j})

\* The share of the observations after i in i's forward window that are a
\* profit at threshold 0 for a buy at observation i.
ChanceAt(i) ==
    LET later == ForwardWindow(i) \ {i}
        wins == {j \in later :
                    (column[j].value - column[i].value) * broker_commission.den
                      - (column[j].value + column[i].value) * broker_commission.num
                    >= 0}
    IN  IF later = {} THEN Frac(0, 1)
        ELSE Frac(Cardinality(wins), Cardinality(later))

\* C10: with shift = 0 the series returned has the input's index in the
\* input's order, and its value at each timestamp is aggfunc over the
\* window_size consecutive observations that start there and run forward in
\* time; where fewer remain, over those that remain, no row being dropped or
\* left missing.
C10_ForwardWindows ==
    WindowDone =>
        /\ ret.kind = "return"
        /\ Len(ret.value) = Len(column)
        /\ \A i \in 1..Len(column) :
              /\ ret.value[i].datetime = column[i].datetime
              /\ aggfunc = "sum" => ret.value[i].value = SumAt(ForwardWindow(i))
              /\ aggfunc = "profit_chance_lookahead" =>
                    ret.value[i].value = ChanceAt(i)

\* C10's case: a series longer than the window, so that the last timestamp's
\* window is cut short; the first price is a buy with a profitable sale in
\* its full window, the last has nothing after it.
C10_Witness ==
    /\ WindowDone
    /\ aggfunc = "profit_chance_lookahead"
    /\ Len(column) = MaxRows
    /\ window_size = 2
    /\ ret.value[1].value = Frac(1, 1)
    /\ ret.value[MaxRows].value = Frac(0, 1)
    /\ ret.value[MaxRows].datetime = column[MaxRows].datetime


-----------------------------------------------------------------------------
(* Properties of make_buy_features and of the caller's table.              *)

FeatureDone == pc = "done" /\ op = "make_buy_features"

FeatureReturned == FeatureDone /\ ret.kind = "return"

\* The window sizes of a call that asks for some.
RequestedWindows ==
    IF Truthy(window_sizes) /\ Iterable(window_sizes)
    THEN {window_sizes.items[i].value : i \in 1..Len(window_sizes.items)}
    ELSE {}

LargestWindow ==
    CHOOSE w \in RequestedWindows : \A v \in RequestedWindows : v <= w

\* The leading rows that lack the history of the largest window.
WarmupRows ==
    IF RequestedWindows = {} THEN 0
    ELSE IF LargestWindow - 1 > Len(data.rows) THEN Len(data.rows)
    ELSE LargestWindow - 1

\* C11: the table make_buy_features returns has no missing value, and its
\* rows are the rows of the table passed less the leading warm-up rows, whose
\* number the largest requested window alone determines (none when no window
\* is requested), whether shift_windows is true or false.
C11_WarmupRowsDropped ==
    FeatureReturned =>
        /\ \A k \in 1..Len(ret.value.rows) : ~has_missing(ret.value.rows[k])
        /\ Len(ret.value.rows) = Len(data.rows) - WarmupRows
        /\ \A k \in 1..Len(ret.value.rows) :
              ret.value.rows[k].datetime = data.rows[k + WarmupRows].datetime

\* The rows at the end that a shifted window of the largest size reaches
\* past.
ShiftRows ==
    IF RequestedWindows # {} /\ shift_windows THEN LargestWindow \div 2
    ELSE 0

\* The first and the last row of the table passed that have every window
\* full.
FirstFull == IF RequestedWindows = {} THEN 1 ELSE LargestWindow

LastFull == Len(data.rows) - ShiftRows

FullRows ==
    IF 2 \in RequestedWindows \/ LastFull < FirstFull THEN 0
    ELSE LastFull - FirstFull + 1

\* C11, as the code has it: the table returned has no missing value.  Its
\* rows are those of the table passed from row W, the largest requested
\* window, to row n - (W \div 2) when shift_windows is true and to the last
\* row n when it is false; all rows when no window is requested; and no row
\* at all when a window of 2 is requested, whose weights are all 0.
C11_FullWindowRows ==
    FeatureReturned =>
        /\ \A k \in 1..Len(ret.value.rows) : ~has_missing(ret.value.rows[k])
        /\ Len(ret.value.rows) = FullRows
        /\ \A k \in 1..Len(ret.value.rows) :
              /\ ret.value.rows[k].datetime
                    = data.rows[FirstFull + k - 1].datetime
              /\ ret.value.rows[k].open = data.rows[FirstFull + k - 1].open

C11_Witness ==
    /\ FeatureReturned
    /\ shift_windows
    /\ RequestedWindows = {1, 3}
    /\ Len(data.rows) = MaxFeatureRows
    /\ Len(ret.value.rows) = MaxFeatureRows - 3
    /\ ret.value.rows[1].datetime = data.rows[3].datetime

\* C12: no step of make_buy_features or of calc_cross_profit changes the
\* table the caller passed: rows, columns, values, index and index name.
C12_TableUntouched == [][data' = data]_vars

\* A list all of whose items are integers.
IterableOfIntegers(v) ==
    /\ Iterable(v)
    /\ \A i \in 1..Len(v.items) : v.items[i].type = "int"

\* C13: make_buy_features raises, and returns no table, whenever window_sizes
\* is supplied and is not an iterable of integers: a bare integer, 0 as well
\* as positive, or a list with an item that is not an integer.
C13_BadWindowSizesFail ==
    (FeatureDone /\ window_sizes # PyNone /\ ~IterableOfIntegers(window_sizes))
        => ret.kind = "raise"

\* C14: calc_cross_profit on a table whose index is not a DatetimeIndex
\* raises, with no pair generated and no table returned, whatever the policy.
C14_IndexAssertFails ==
    (pc = "done" /\ op = "calc_cross_profit"
        /\ data.index_type # "DatetimeIndex")
        => /\ ret = Raise("AssertionError")
           /\ data_cross = <<>>

C14_Witness ==
    /\ pc = "done"
    /\ op = "calc_cross_profit"
    /\ data.index_type = "RangeIndex"
    /\ Len(data.rows) = MaxRows
    /\ policy \in Lookbehind
    /\ ret = Raise("AssertionError")
    /\ data_cross = <<>>


-----------------------------------------------------------------------------
(* Properties of learn_buy_recommendation.                                 *)

RunDone == op = "learn_buy_recommendation" /\ run.count > 0

\* The last call of learn_buy_recommendation got as far as calling `name`.
Reached(name) == \E i \in 1..Len(run.steps) : run.steps[i] = name

\* C15: a call of learn_buy_recommendation on one Buyer changes neither the
\* classifier nor the training data of another Buyer, nor what
\* draw_feature_importances shows of it, Buyers made with the default
\* arguments included.
C15_RunsShareNothing ==
    [][\A b \in BuyerIds :
          b # run'.buyer =>
              /\ models'[buyers'[b].model] = models[buyers[b].model]
              /\ buyers'[b].train_data = buyers[b].train_data
              /\ draw_feature_importances(buyers'[b],
                                          models'[buyers'[b].model])
                    = draw_feature_importances(buyers[b],
                                               models[buyers[b].model])]_vars

\* C16: when the download has no row the call raises at the assert, having
\* called nothing after get_stock_prices: no feature building, labelling,
\* fit or chart, and no record returned.
C16_EmptyDownloadAborts ==
    (RunDone /\ Len(run.downloaded.rows) = 0)
        => /\ ret = Raise("AssertionError")
           /\ run.steps = <<"get_stock_prices">>

C16_Witness ==
    /\ RunDone
    /\ Len(run.downloaded.rows) = 0
    /\ run.cross_val
    /\ run.clf.at = "nowhere"
    /\ ret = Raise("AssertionError")

\* C17: when cross_validate is called and raises, the call goes on to fit
\* and, the classifier not failing, returns the record with roc_auc None and
\* buy the probability the classifier fitted in this call gives the last
\* feature row; and roc_auc is None in every record of a call without
\* cross_val.
C17_CrossValFailureIsNone ==
    RunDone =>
        /\ (Reached("cross_validate") /\ run.cv # "ok") =>
              /\ Reached("fit")
              /\ (run.clf.at = "nowhere") =>
                    /\ ret.kind = "return"
                    /\ ret.value.roc_auc = NoneValue
                    /\ ret.value.buy.model = models[buyers[run.buyer].model]
                    /\ ret.value.buy.model.fitted
                    /\ ret.value.buy.model.X
                          = drop(buyers[run.buyer].train_data.value, {"profit"})
                    /\ ret.value.buy.x.datetime
                          = run.downloaded.rows[Len(run.downloaded.rows)].datetime
        /\ (~run.cross_val /\ ret.kind = "return") =>
              ret.value.roc_auc = NoneValue

C17_Witness ==
    /\ RunDone
    /\ run.cross_val
    /\ run.cv # "ok"
    /\ Reached("cross_validate")
    /\ Reached("make_chart")
    /\ ret.kind = "return"
    /\ ret.value.roc_auc = NoneValue

\* The classifier failed in the last call.
ClassifierFailed == RunDone /\ Reached("fit") /\ run.clf.at # "nowhere"

\* C18: whenever the classifier fails in fit or predict_proba, the call
\* raises the descriptive error about profit_threshold, never the error of
\* the classifier, draws no chart and returns no record.
C18_ClassifierErrorReplaced ==
    ClassifierFailed =>
        /\ ret = Raise(DescriptiveError)
        /\ ~Reached("make_chart")

\* C18, as the code has it: a ValueError of the classifier is replaced by
\* the descriptive error; any other error of the classifier reaches the
\* caller as it is; either way no chart is drawn and no record returned.
C18_ValueErrorReplaced ==
    ClassifierFailed =>
        /\ (run.clf.error = "ValueError") => ret = Raise(DescriptiveError)
        /\ (run.clf.error # "ValueError") => ret = Raise(run.clf.error)
        /\ ~Reached("make_chart")

C18_Witness ==
    /\ ClassifierFailed
    /\ run.clf.at = "predict_proba"
    /\ run.clf.error = "ValueError"
    /\ ret = Raise(DescriptiveError)
    /\ ~Reached("make_chart")


-----------------------------------------------------------------------------
(* Properties of json_write_results.                                       *)

\* C19: from an absent file, after the calls json_write_results(d_1), ...,
\* json_write_results(d_k) the file is the JSON text of the array d_1..d_k
\* in call order and nothing more, so json.load of it gives d_1..d_k; the
\* first call makes the file with the array of d_1 alone.
C19_FileIsArrayOfCalls ==
    (op = "json_write_results") =>
        /\ file.exists <=> calls # <<>>
        /\ file.exists =>
              /\ load(file.text) = Return(calls)
              /\ file.text = dump(calls)
              /\ ret = Return(NoneValue)

C19_Witness ==
    /\ op = "json_write_results"
    /\ calls = <<[buy |-> 100], [buy |-> 7], [buy |-> 42]>>
    /\ file.exists
    /\ load(file.text) = Return(calls)


-----------------------------------------------------------------------------
(* Properties of get_stock_prices.                                         *)

\* C20: in a call with batches >= 1, a request answered with a status other
\* than 200 is the last request made (no retry, no later batch), and the call
\* has raised with the message of that response: it returns no table, not
\* even of the batches downloaded before.
C20_FailedBatchAborts ==
    (op = "get_stock_prices" /\ batches >= 1) =>
        \A i \in 1..Len(sent) :
            (sent[i].response.status_code # 200) =>
                /\ i = Len(sent)
                /\ pc = "done"
                /\ ret = Raise(AssertionError(
                                  sent[i].response.json.payload.message))

C20_Witness ==
    /\ op = "get_stock_prices"
    /\ batches = MaxBatches
    /\ pc = "done"
    /\ Len(sent) = 2
    /\ sent[1].response.status_code = 200
    /\ Len(data) = 1
    /\ Len(data[1]) > 0
    /\ sent[2].response.status_code = 500
    /\ ret = Raise(AssertionError("Internal error"))


\* The length of the window of the i-th request made.
WindowLength(i) == sent[i].params.to.hours - sent[i].params.from.hours

\* C21: the requests of a call are made oldest window first, every window
\* is one batch length long and starts where the window before it ends, and
\* the last of the B windows ends at the anchor, whether a date is passed or
\* the anchor is the current time.
C21_WindowsContiguous ==
    (op = "get_stock_prices") =>
        /\ \A i \in 1..Len(sent) :
              /\ WindowLength(i) = batch_length(interval, periods)
              /\ (i > 1) =>
                    /\ sent[i].params.from = sent[i - 1].params.to
                    /\ sent[i - 1].params.from.hours < sent[i].params.from.hours
        /\ (Len(sent) = batches /\ batches >= 1 /\ date # PyNone) =>
              sent[batches].params.to.hours = fromisoformat(date) + Day


-----------------------------------------------------------------------------
(* Properties of last_day and make_train_data.                             *)

\* The calendar date of a timestamp.
CalendarDate(ix) == <<ix.year, ix.month, ix.day>>

\* The rows of the data on the calendar date of its last row.
RowsOfLastDate ==
    SelectSeq(data, LAMBDA row: CalendarDate(row.index)
                                    = CalendarDate(data[Len(data)].index))

\* C22: last_day returns exactly the rows whose calendar date (year, month,
\* day) is that of the last row, and make_train_data builds its features
\* and its profit chances from those rows only.
C22_LastCalendarDate ==
    (pc = "done" /\ ret.kind = "return") =>
        /\ (op = "last_day") => ret.value = RowsOfLastDate
        /\ (op = "make_train_data") =>
              /\ ret.value.X = generate_features(RowsOfLastDate)
              /\ ret.value.y = make_probs(RowsOfLastDate)


-----------------------------------------------------------------------------
(* Properties of make_chart.                                               *)

ChartDrawn == RunDone /\ Reached("make_chart")

\* The prices inside the green zone that are looked at: the first above its
\* lower edge and its upper edge.
ZonePrices ==
    {price \in {run.chart.green_min + 1, run.chart.green_max} :
        /\ run.chart.green_min < price
        /\ price <= run.chart.green_max}

\* C23: the lower edge of the green zone make_chart draws is
\* min_price_for_profit of the current price at the Buyer's own
\* broker_commission, the rate the call labels profit with, so the Buyer's
\* labeller counts selling at a price inside the zone, bought at the current
\* price, as a profit at threshold 0.
C23_ChartUsesBuyerCommission ==
    ChartDrawn =>
        LET self == buyers[run.buyer]
            current == run.chart.current_price
        IN  /\ run.chart.green_min
                  \in {min_price_for_profit(sol).value :
                         sol \in root(current, self.broker_commission, current)}
            /\ \A price \in ZonePrices :
                  profit(Whole(current), Whole(price), self.broker_commission,
                         0, TRUE) = Return(TRUE)

=============================================================================
